---- MODULE Spec2Model ----
(***************************************************************************)
(* Model of create_pep440_version.py: the conversion of a semtag version   *)
(* identifier into a PEP 440 version identifier, and the command-line      *)
(* entry point around it.                                                   *)
(*                                                                         *)
(* A Python str is modelled as a sequence of one-character strings, so     *)
(* that substring tests, the regular expression, str.split and             *)
(* str.partition are computed character by character.                      *)
(***************************************************************************)
EXTENDS Integers, Sequences, FiniteSets, TLC

(*************************** character classes *****************************)

\* \d of the pattern (ASCII digits; the model's alphabet holds no others)
Digits == {"0", "1", "2", "3", "4", "5", "6", "7", "8", "9"}

\* [a-zA-Z] of the pattern
Letters == {"a", "b", "c", "d", "e", "f", "g", "h", "i", "j", "k", "l", "m", "n", "o", "p", "q", "r", "s", "t", "u", "v", "w", "x", "y", "z",
            "A", "B", "C", "D", "E", "F", "G", "H", "I", "J", "K", "L", "M", "N", "O", "P", "Q", "R", "S", "T", "U", "V", "W", "X", "Y", "Z"}

\* [0-9a-zA-Z-] of the pattern
IdentChars == Digits \cup Letters \cup {"-"}

(***************************** string literals *****************************)

STR_unstaged == <<"u", "n", "s", "t", "a", "g", "e", "d">>

STR_uncommitted == <<"u", "n", "c", "o", "m", "m", "i", "t", "t", "e", "d">>

STR_alpha == <<"a", "l", "p", "h", "a">>

STR_beta == <<"b", "e", "t", "a">>

STR_rc == <<"r", "c">>

STR_dev == <<"d", "e", "v">>

STR_a == <<"a">>

STR_b == <<"b">>

STR_test == <<"t", "e", "s", "t">>

STR_dot_dev == <<".", "d", "e", "v">>

MSG_uncommitted == <<"C", "a", "n", "n", "o", "t", " ", "c", "r", "e", "a", "t", "e", " ", "P", "E", "P", "4", "4", "0", "-", "c", "o", "m", "p", "l", "i", "a", "n", "t", " ", "v", "e", "r", "s", "i", "o", "n", " ", "i", "d", "e", "n", "t", "i", "f", "i", "e", "r", " ", "i", "f", " ", "t", "h", "e", "r", "e", " ", "a", "r", "e", " ", "u", "n", "c", "o", "m", "m", "i", "t", "e", "d", " ", "o", "r", " ", "u", "n", "s", "t", "a", "g", "e", "d", " ", "c", "h", "a", "n", "g", "e", "s", ".">>

MSG_prerelease == <<"D", "o", " ", "n", "o", "t", " ", "k", "n", "o", "w", " ", "h", "o", "w", " ", "t", "o", " ", "h", "a", "n", "d", "l", "e", " ", "p", "r", "e", "r", "e", "l", "e", "a", "s", "e", " ">>

MSG_groupdict == <<"'", "N", "o", "n", "e", "T", "y", "p", "e", "'", " ", "o", "b", "j", "e", "c", "t", " ", "h", "a", "s", " ", "n", "o", " ", "a", "t", "t", "r", "i", "b", "u", "t", "e", " ", "'", "g", "r", "o", "u", "p", "d", "i", "c", "t", "'">>

MSG_expected == <<"E", "r", "r", "o", "r", ":", " ", "E", "x", "p", "e", "c", "t", "e", "d", " ", "1", " ", "a", "r", "g", "u", "m", "e", "n", "t", ",", " ", "g", "o", "t", " ">>

MSG_test_passed == <<"T", "e", "s", "t", " ", "p", "a", "s", "s", "e", "d", ".">>

MSG_failure_for == <<"F", "a", "i", "l", "u", "r", "e", " ", "f", "o", "r", " ">>

MSG_got == <<".", " ", "G", "o", "t", " ">>

MSG_expected_ref == <<".", " ", "E", "x", "p", "e", "c", "t", "e", "d", " ">>

PROG == <<".", "/", "c", "r", "e", "a", "t", "e", "_", "p", "e", "p", "4", "4", "0", "_", "v", "e", "r", "s", "i", "o", "n", ".", "p", "y">>

(************************* Python str primitives ***************************)

\* Optional values: None, or a value (dict.get, a regex group that did not take part)
None == [some |-> FALSE, val |-> <<>>]

Some(s) == [some |-> TRUE, val |-> s]

\* Python truthiness of an optional str: None and "" are false
Truthy(opt) == opt.some /\ opt.val # <<>>

\* sub in s
Contains(s, sub) ==
  \E i \in 0..(Len(s) - Len(sub)) : SubSeq(s, i + 1, i + Len(sub)) = sub

\* s.find(c) + 1 for a one-character c: the first position of c in s, 0 when absent
Find(s, c) ==
  IF \E i \in 1..Len(s) : s[i] = c
  THEN CHOOSE i \in 1..Len(s) : s[i] = c /\ \A j \in 1..(i - 1) : s[j] # c
  ELSE 0

\* s.split(c)
RECURSIVE Split(_, _)
Split(s, c) ==
  LET i == Find(s, c)
  IN IF i = 0 THEN <<s>>
     ELSE <<SubSeq(s, 1, i - 1)>> \o Split(SubSeq(s, i + 1, Len(s)), c)

\* s.partition(c)[0]
PartitionHead(s, c) ==
  LET i == Find(s, c)
  IN IF i = 0 THEN s ELSE SubSeq(s, 1, i - 1)

\* str(n) for n >= 0, as an f-string formats an int
DigitChars == <<"0", "1", "2", "3", "4", "5", "6", "7", "8", "9">>

RECURSIVE IntToStr(_)
IntToStr(n) ==
  IF n < 10 THEN <<DigitChars[n + 1]>>
  ELSE IntToStr(n \div 10) \o <<DigitChars[(n % 10) + 1]>>

(************************* the semver pattern ******************************)

AllIn(s, S) == \A i \in 1..Len(s) : s[i] \in S

\* 0|[1-9]\d*
IsNumericIdent(s) ==
  \/ s = <<"0">>
  \/ Len(s) >= 1 /\ s[1] \in (Digits \ {"0"}) /\ AllIn(s, Digits)

\* 0|[1-9]\d*|\d*[a-zA-Z-][0-9a-zA-Z-]*
IsPrereleaseIdent(s) ==
  \/ IsNumericIdent(s)
  \/ \E i \in 1..Len(s) :
       /\ s[i] \in (Letters \cup {"-"})
       /\ AllIn(SubSeq(s, 1, i - 1), Digits)
       /\ AllIn(SubSeq(s, i + 1, Len(s)), IdentChars)

\* [0-9a-zA-Z-]+
IsBuildIdent(s) == Len(s) >= 1 /\ AllIn(s, IdentChars)

\* re.match returning None
NoMatch == [matched |-> FALSE]

\* re.match(semver_pattern, s) and its groupdict().  The pattern is anchored;
\* "$" matches at the end of the string and also just before a final newline.
\* No group can hold "+", only prerelease and buildmetadata can hold "-", so the
\* first "+" starts buildmetadata and the first "-" before it starts prerelease.
re_match(s) ==
  LET body  == IF Len(s) > 0 /\ s[Len(s)] = "\n" THEN SubSeq(s, 1, Len(s) - 1) ELSE s
      rest  == SubSeq(body, 2, Len(body))
      p     == Find(rest, "+")
      front == IF p = 0 THEN rest ELSE SubSeq(rest, 1, p - 1)
      build == IF p = 0 THEN None ELSE Some(SubSeq(rest, p + 1, Len(rest)))
      h     == Find(front, "-")
      core  == IF h = 0 THEN front ELSE SubSeq(front, 1, h - 1)
      pre   == IF h = 0 THEN None ELSE Some(SubSeq(front, h + 1, Len(front)))
      nums  == Split(core, ".")
      pres  == Split(pre.val, ".")
      blds  == Split(build.val, ".")
  IN IF /\ Len(body) > 0
        /\ body[1] = "v"
        /\ Len(nums) = 3
        /\ \A i \in 1..3 : IsNumericIdent(nums[i])
        /\ pre.some => \A i \in 1..Len(pres) : IsPrereleaseIdent(pres[i])
        /\ build.some => \A i \in 1..Len(blds) : IsBuildIdent(blds[i])
     THEN [matched |-> TRUE, major |-> nums[1], minor |-> nums[2], patch |-> nums[3],
           prerelease |-> pre, buildmetadata |-> build]
     ELSE NoMatch

(***************************** the conversion ******************************)

\* The outcome of a call: a returned value, or a raised exception
Return(v) == [kind |-> "return", value |-> v, msg |-> <<>>]

Raise(type, msg) == [kind |-> type, value |-> <<>>, msg |-> msg]

\* Mutant: "rc" abbreviated to "c"
prerelease_cycle_to_short_name_get_c(k) ==
  CASE k = STR_alpha -> Some(STR_a)
    [] k = STR_beta  -> Some(STR_b)
    [] k = STR_rc    -> Some(<<"c">>)
    [] OTHER         -> None

\* prerelease_cycle_to_short_name.get(k)
prerelease_cycle_to_short_name_get(k) ==
  CASE k = STR_alpha -> Some(STR_a)
    [] k = STR_beta  -> Some(STR_b)
    [] k = STR_rc    -> Some(STR_rc)
    [] OTHER         -> None

\* raise_error() of _get_prerelease_and_dev_segment
raise_error(prerelease) ==
  Raise("ValueError", MSG_prerelease \o prerelease \o <<".">>)

\* dev_segment from dev_value
dev_segment_of(dev_value) ==
  IF dev_value.some THEN STR_dot_dev \o dev_value.val ELSE <<>>

\* Mutant: an unrecognized cycle label falls through instead of raising
_get_prerelease_and_dev_segment_fallthrough(result_dict) ==
  LET prerelease_opt == result_dict.prerelease
      prerelease == prerelease_opt.val
      prerelease_parts == Split(prerelease, ".")
      short_name_opt == prerelease_cycle_to_short_name_get(prerelease_parts[1])
  IN IF ~Truthy(prerelease_opt) THEN Return(<< <<>>, <<>> >>)
     ELSE IF Len(prerelease_parts) \notin {2, 3} THEN raise_error(prerelease)
     ELSE IF Truthy(short_name_opt)
       THEN Return(<< short_name_opt.val \o prerelease_parts[2],
                      dev_segment_of(IF Len(prerelease_parts) = 3
                                     THEN Some(prerelease_parts[3]) ELSE None) >>)
     ELSE IF prerelease_parts[1] = STR_dev
       THEN IF Len(prerelease_parts) = 2
            THEN Return(<< <<>>, dev_segment_of(Some(prerelease_parts[2])) >>)
            ELSE raise_error(prerelease)
     ELSE Return(<< <<>>, <<>> >>)

\* Mutant: the part count is checked only from below, and "dev" takes its
\* value from part 1 whatever the count
_get_prerelease_and_dev_segment_nocount(result_dict) ==
  LET prerelease_opt == result_dict.prerelease
      prerelease == prerelease_opt.val
      prerelease_parts == Split(prerelease, ".")
      short_name_opt == prerelease_cycle_to_short_name_get(prerelease_parts[1])
  IN IF ~Truthy(prerelease_opt) THEN Return(<< <<>>, <<>> >>)
     ELSE IF Len(prerelease_parts) < 2 THEN raise_error(prerelease)
     ELSE IF Truthy(short_name_opt)
       THEN Return(<< short_name_opt.val \o prerelease_parts[2],
                      dev_segment_of(IF Len(prerelease_parts) >= 3
                                     THEN Some(prerelease_parts[3]) ELSE None) >>)
     ELSE IF prerelease_parts[1] = STR_dev
       THEN Return(<< <<>>, dev_segment_of(Some(prerelease_parts[2])) >>)
     ELSE raise_error(prerelease)

\* Mutant: the development value is the last part whenever a cycle label leads
_get_prerelease_and_dev_segment_lastdev(result_dict) ==
  LET prerelease_opt == result_dict.prerelease
      prerelease == prerelease_opt.val
      prerelease_parts == Split(prerelease, ".")
      short_name_opt == prerelease_cycle_to_short_name_get(prerelease_parts[1])
  IN IF ~Truthy(prerelease_opt) THEN Return(<< <<>>, <<>> >>)
     ELSE IF Len(prerelease_parts) \notin {2, 3} THEN raise_error(prerelease)
     ELSE IF Truthy(short_name_opt)
       THEN Return(<< short_name_opt.val \o prerelease_parts[2],
                      dev_segment_of(Some(prerelease_parts[Len(prerelease_parts)])) >>)
     ELSE IF prerelease_parts[1] = STR_dev
       THEN IF Len(prerelease_parts) = 2
            THEN Return(<< <<>>, dev_segment_of(Some(prerelease_parts[2])) >>)
            ELSE raise_error(prerelease)
     ELSE raise_error(prerelease)

\* Returns the pair <<prerelease_segment, dev_segment>>, or raises
_get_prerelease_and_dev_segment(result_dict) ==
  LET prerelease_opt == result_dict.prerelease
      prerelease == prerelease_opt.val
      prerelease_parts == Split(prerelease, ".")
      short_name_opt == prerelease_cycle_to_short_name_get(prerelease_parts[1])
  IN IF ~Truthy(prerelease_opt) THEN Return(<< <<>>, <<>> >>)
     ELSE IF Len(prerelease_parts) \notin {2, 3} THEN raise_error(prerelease)
     ELSE IF Truthy(short_name_opt)
       THEN Return(<< short_name_opt.val \o prerelease_parts[2],
                      dev_segment_of(IF Len(prerelease_parts) = 3
                                     THEN Some(prerelease_parts[3]) ELSE None) >>)
     ELSE IF prerelease_parts[1] = STR_dev
       THEN IF Len(prerelease_parts) = 2
            THEN Return(<< <<>>, dev_segment_of(Some(prerelease_parts[2])) >>)
            ELSE raise_error(prerelease)
     ELSE raise_error(prerelease)

\* Mutant: the whole buildmetadata becomes the local version label
_get_local_version_label_whole(result_dict) ==
  LET buildmetadata_opt == result_dict.buildmetadata
  IN IF Truthy(buildmetadata_opt)
     THEN <<"+">> \o buildmetadata_opt.val
     ELSE <<>>

_get_local_version_label(result_dict) ==
  LET buildmetadata_opt == result_dict.buildmetadata
  IN IF Truthy(buildmetadata_opt)
     THEN <<"+">> \o PartitionHead(buildmetadata_opt.val, ".")
     ELSE <<>>

\* Mutant: the instability markers are looked for after the pattern has matched
create_pep440_version_matchfirst(semtag_version) ==
  LET result == re_match(semtag_version)
      epoch_segment == result.major \o <<".">>
      release_segment == result.minor \o <<".">> \o result.patch
      segs == _get_prerelease_and_dev_segment(result)
      local_version_label == _get_local_version_label(result)
  IN IF ~result.matched THEN Raise("AttributeError", MSG_groupdict)
     ELSE IF Contains(semtag_version, STR_unstaged)
             \/ Contains(semtag_version, STR_uncommitted)
       THEN Raise("ValueError", MSG_uncommitted)
     ELSE IF segs.kind # "return" THEN segs
     ELSE Return(epoch_segment \o release_segment \o segs.value[1] \o segs.value[2]
                 \o local_version_label)

create_pep440_version(semtag_version) ==
  IF Contains(semtag_version, STR_unstaged) \/ Contains(semtag_version, STR_uncommitted)
  THEN Raise("ValueError", MSG_uncommitted)
  ELSE
    LET result == re_match(semtag_version)
        epoch_segment == result.major \o <<".">>
        release_segment == result.minor \o <<".">> \o result.patch
        segs == _get_prerelease_and_dev_segment(result)
        local_version_label == _get_local_version_label(result)
    IN IF ~result.matched THEN Raise("AttributeError", MSG_groupdict)
       ELSE IF segs.kind # "return" THEN segs
       ELSE Return(epoch_segment \o release_segment \o segs.value[1] \o segs.value[2]
                   \o local_version_label)

(****************************** the self-test ******************************)

\* The dict of _test_create_pep440_version, in insertion (iteration) order
semtag_version_to_pep440_version ==
  << << <<"v", "0", ".", "1", "4", ".", "0", "-", "a", "l", "p", "h", "a", ".", "1", ".", "2", "+", "f", "0", "e", "5", "6", "3", "5", "8", "6", ".", "f", "e", "a", "t", "u", "r", "e", "-", "M", "L", "B", "-", "2", "0", "0", "0", "-", "d", "e", "v", "e", "l", "o", "p", "e", "r", "-", "c", "r", "e", "a", "t", "e", "-", "p", "y", "t", "h", "o", "n", "-", "c", "o", "m", "p", "a", "t", "i", "b", "l">>,
        <<"0", ".", "1", "4", ".", "0", "a", "1", ".", "d", "e", "v", "2", "+", "f", "0", "e", "5", "6", "3", "5", "8", "6">> >>,
     << <<"v", "0", ".", "1", "4", ".", "0", "-", "a", "l", "p", "h", "a", ".", "1", ".", "2">>,
        <<"0", ".", "1", "4", ".", "0", "a", "1", ".", "d", "e", "v", "2">> >>,
     << <<"v", "0", ".", "1", "4", ".", "0", "-", "a", "l", "p", "h", "a", ".", "1">>,
        <<"0", ".", "1", "4", ".", "0", "a", "1">> >>,
     << <<"v", "0", ".", "1", "4", ".", "0", "-", "b", "e", "t", "a", ".", "1">>,
        <<"0", ".", "1", "4", ".", "0", "b", "1">> >>,
     << <<"v", "0", ".", "1", "4", ".", "0", "-", "r", "c", ".", "1">>,
        <<"0", ".", "1", "4", ".", "0", "r", "c", "1">> >>,
     << <<"v", "0", ".", "1", "3", ".", "1", "-", "d", "e", "v", ".", "1">>,
        <<"0", ".", "1", "3", ".", "1", ".", "d", "e", "v", "1">> >>,
     << <<"v", "0", ".", "1", "4", ".", "0">>,
        <<"0", ".", "1", "4", ".", "0">> >>,
     << <<"v", "0", ".", "1", "5", ".", "0">>,
        <<"0", ".", "1", "5", ".", "0">> >>,
     << <<"v", "1", ".", "1", "5", ".", "0">>,
        <<"1", ".", "1", "5", ".", "0">> >> >>

(**************************** the command line ****************************)

\* Bounds of the enumerated command lines
MaxPrereleaseParts == 4

MaxBuildSegments == 2

MaxArgs == 3

RECURSIVE Join(_, _)
Join(parts, sep) ==
  IF Len(parts) = 0 THEN <<>>
  ELSE IF Len(parts) = 1 THEN parts[1]
  ELSE parts[1] \o sep \o Join(Tail(parts), sep)

SeqsUpTo(S, n) == UNION {[1..k -> S] : k \in 0..n}

Cores == {<<"1", ".", "1", "5", ".", "1", "0">>}

CycleLabels == {STR_alpha, STR_beta, STR_rc, STR_dev, <<"p", "r", "e">>, <<"7">>}

PartValues == {<<"1">>, <<"2">>, <<"x">>}

BuildValues == {<<"f", "0", "e", "5">>, <<"x", "-", "1">>}

PrereleaseLists ==
  {<<>>} \cup {<<l>> \o r : l \in CycleLabels,
                            r \in SeqsUpTo(PartValues, MaxPrereleaseParts - 1)}

BuildLists == SeqsUpTo(BuildValues, MaxBuildSegments)

Semtag(core, pp, bb) ==
  <<"v">> \o core
    \o (IF Len(pp) = 0 THEN <<>> ELSE <<"-">> \o Join(pp, <<".">>))
    \o (IF Len(bb) = 0 THEN <<>> ELSE <<"+">> \o Join(bb, <<".">>))

\* Well-formed identifiers, with every prerelease and buildmetadata shape
StructuredInputs ==
  {Semtag(core, pp, bb) : core \in Cores, pp \in PrereleaseLists, bb \in BuildLists}

InsertAt(s, ins, i) == SubSeq(s, 1, i) \o ins \o SubSeq(s, i + 1, Len(s))

DeleteAt(s, i) == SubSeq(s, 1, i - 1) \o SubSeq(s, i + 1, Len(s))

EditBases ==
  {semtag_version_to_pep440_version[i][1] : i \in 2..9}
    \cup {<<"v", "0", ".", "1", "4", ".", "0", "-", "a", "l", "p", "h", "a", ".", "1", ".", "2", "+", "f", "0", "e", "5", ".", "x", "-", "1">>}

EditChars == {"0", "1", ".", "-", "+", "v", "a", "\n", " "}

\* Every identifier one character away from a well-formed one: a missing "v",
\* a missing component, a leading zero, a stray separator, a final newline
EditedInputs ==
  UNION {{DeleteAt(b, i) : i \in 1..Len(b)}
           \cup {InsertAt(b, <<c>>, i) : i \in 0..Len(b), c \in EditChars} : b \in EditBases}

MarkerBases == {<<"v", "0", ".", "1", "4", ".", "0", "-", "a", "l", "p", "h", "a", ".", "1", ".", "2", "+", "f", "0", "e", "5", ".", "x", "-", "1">>,
                <<"v", "0", ".", "1", "3", ".", "1", "-", "d", "e", "v", ".", "1">>,
                <<"0", ".", "1", "4", ".", "0">>,
                <<"v", "0", ".", "1", "4">>}

\* An instability marker at every position of well-formed and malformed identifiers
MarkedInputs ==
  UNION {{InsertAt(b, mk, i) : mk \in {STR_unstaged, STR_uncommitted}, i \in 0..Len(b)}
           : b \in MarkerBases}

Inputs == StructuredInputs \cup EditedInputs \cup MarkedInputs \cup {STR_test}

ExtraArgs == {STR_test, <<"v", "0", ".", "1", "4", ".", "0">>}

\* sys.argv[1:]
ArgLists ==
  {<<>>} \cup {<<s>> : s \in Inputs}
         \cup UNION {[1..k -> ExtraArgs] : k \in 2..MaxArgs}

(******************************** the state ********************************)

VARIABLES
  sys_argv,   \* sys.argv: the program name, then the arguments
  pc,         \* position in the __main__ block
  test_i,     \* position of the loop of _test_create_pep440_version in the dict
  outcome,    \* outcome of the last call of create_pep440_version
  calls,      \* the arguments create_pep440_version was called with, in order
  stdout,     \* the lines written to standard output
  stderr,     \* the lines written to standard error
  status      \* the exit status; -1 while running

vars == <<sys_argv, pc, test_i, outcome, calls, stdout, stderr, status>>

NotCalled == [kind |-> "none", value |-> <<>>, msg |-> <<>>]

Init ==
  /\ sys_argv \in {<<PROG>> \o args : args \in ArgLists}
  /\ pc = "main"
  /\ test_i = 0
  /\ outcome = NotCalled
  /\ calls = <<>>
  /\ stdout = <<>>
  /\ stderr = <<>>
  /\ status = -1

\* The interpreter ends on an uncaught exception: the traceback ends with the
\* exception's type and message on standard error, the exit status is 1
Uncaught(o) ==
  /\ stderr' = Append(stderr, [exc |-> o.kind, text |-> o.msg])
  /\ status' = 1
  /\ pc' = "exited"

\* sys.exit(msg) with a str: msg goes to standard error, the exit status is 1
sys_exit(msg) ==
  /\ stderr' = Append(stderr, [exc |-> "SystemExit", text |-> msg])
  /\ status' = 1
  /\ pc' = "exited"

\* Mutant: the message counts the program name as an argument
ArgCountMessage_argv(n_argv) == MSG_expected \o IntToStr(n_argv) \o <<".">>

\* The message of the argument-count error
ArgCountMessage(n_argv) == MSG_expected \o IntToStr(n_argv - 1) \o <<".">>

\* n_argv = len(sys.argv); if n_argv != 2: sys.exit(...)
CheckArgs ==
  /\ pc = "main"
  /\ LET n_argv == Len(sys_argv)
     IN IF n_argv # 2
        THEN sys_exit(ArgCountMessage(n_argv))
        ELSE pc' = "dispatch" /\ UNCHANGED <<stderr, status>>
  /\ UNCHANGED <<sys_argv, test_i, outcome, calls, stdout>>

\* arg = sys.argv[1]; if arg == "test": ... else: ...
Dispatch ==
  /\ pc = "dispatch"
  /\ LET arg == sys_argv[2]
     IN IF arg = STR_test
        THEN pc' = "test" /\ test_i' = 1
        ELSE pc' = "convert" /\ UNCHANGED test_i
  /\ UNCHANGED <<sys_argv, outcome, calls, stdout, stderr, status>>

\* pep440_version = create_pep440_version(semtag_version=arg)
ConvertArg ==
  /\ pc = "convert"
  /\ LET arg == sys_argv[2]
         r == create_pep440_version(arg)
     IN /\ outcome' = r
        /\ calls' = Append(calls, arg)
        /\ IF r.kind = "return"
           THEN pc' = "print" /\ UNCHANGED <<stderr, status>>
           ELSE Uncaught(r)
  /\ UNCHANGED <<sys_argv, test_i, stdout>>

\* Mutant: the result is written twice
PrintResult_twice ==
  /\ pc = "print"
  /\ stdout' = Append(Append(stdout, outcome.value), outcome.value)
  /\ status' = 0
  /\ pc' = "exited"
  /\ UNCHANGED <<sys_argv, test_i, outcome, calls, stderr>>

\* print(pep440_version), and the normal end of the script
PrintResult ==
  /\ pc = "print"
  /\ stdout' = Append(stdout, outcome.value)
  /\ status' = 0
  /\ pc' = "exited"
  /\ UNCHANGED <<sys_argv, test_i, outcome, calls, stderr>>

\* The message of the assert of _test_create_pep440_version
AssertMessage(semtag_version, pep440_version, pep440_version_ref) ==
  MSG_failure_for \o semtag_version \o MSG_got \o pep440_version
    \o MSG_expected_ref \o pep440_version_ref \o <<".">>

\* One iteration of the loop of _test_create_pep440_version
TestStep ==
  /\ pc = "test"
  /\ test_i <= Len(semtag_version_to_pep440_version)
  /\ LET semtag_version == semtag_version_to_pep440_version[test_i][1]
         pep440_version_ref == semtag_version_to_pep440_version[test_i][2]
         r == create_pep440_version(semtag_version)
     IN /\ outcome' = r
        /\ calls' = Append(calls, semtag_version)
        /\ IF r.kind # "return"
           THEN Uncaught(r) /\ UNCHANGED test_i
           ELSE IF r.value # pep440_version_ref
           THEN /\ Uncaught(Raise("AssertionError",
                       AssertMessage(semtag_version, r.value, pep440_version_ref)))
                /\ UNCHANGED test_i
           ELSE /\ test_i' = test_i + 1
                /\ UNCHANGED <<pc, stderr, status>>
  /\ UNCHANGED <<sys_argv, stdout>>

\* print("Test passed.") after the loop, and the normal end of the script
TestPassed ==
  /\ pc = "test"
  /\ test_i > Len(semtag_version_to_pep440_version)
  /\ stdout' = Append(stdout, MSG_test_passed)
  /\ status' = 0
  /\ pc' = "exited"
  /\ UNCHANGED <<sys_argv, test_i, outcome, calls, stderr>>

Next ==
  \/ CheckArgs
  \/ Dispatch
  \/ ConvertArg
  \/ PrintResult
  \/ TestStep
  \/ TestPassed

Spec == Init /\ [][Next]_vars

(******************************* properties ********************************)

\* The run has exactly one argument
SingleArg == Len(sys_argv) = 2

Arg == sys_argv[2]

\* The argument has been handed to create_pep440_version
ConvertedArg == SingleArg /\ Arg # STR_test /\ calls = <<Arg>>

HasMarker(s) == Contains(s, STR_unstaged) \/ Contains(s, STR_uncommitted)

Parsed == re_match(Arg)

PrereleaseParts == Split(Parsed.prerelease.val, ".")

BuildSegments == Split(Parsed.buildmetadata.val, ".")

\* "<major>.<minor>.<patch>" of the argument
ReleaseOfArg == Parsed.major \o <<".">> \o Parsed.minor \o <<".">> \o Parsed.patch

\* "+<first buildmetadata segment>" of the argument, or nothing
LocalOfArg == IF Parsed.buildmetadata.some THEN <<"+">> \o BuildSegments[1] ELSE <<>>

ShortCode(label) ==
  CASE label = STR_alpha -> STR_a
    [] label = STR_beta  -> STR_b
    [] label = STR_rc    -> STR_rc

\* The conversion failed with a ValueError and nothing was written
FailedInvalidInput ==
  /\ outcome.kind = "ValueError"
  /\ stdout = <<>>
  /\ pc = "exited"
  /\ status = 1

IsNumber(s) == Len(s) >= 1 /\ AllIn(s, Digits)

HasPrefix(s, pre) == Len(s) >= Len(pre) /\ SubSeq(s, 1, Len(pre)) = pre

\* o is release [{a|b|rc}N] [.devN] [+label], with N a number
IsPep440Form(o, release) ==
  /\ HasPrefix(o, release)
  /\ LET r     == SubSeq(o, Len(release) + 1, Len(o))
         p     == Find(r, "+")
         front == IF p = 0 THEN r ELSE SubSeq(r, 1, p - 1)
         label == SubSeq(r, p + 1, Len(r))
         d     == Find(front, ".")
         preS  == IF d = 0 THEN front ELSE SubSeq(front, 1, d - 1)
         devS  == IF d = 0 THEN <<>> ELSE SubSeq(front, d, Len(front))
     IN /\ p # 0 => Len(label) >= 1
        /\ \/ preS = <<>>
           \/ \E sh \in {STR_a, STR_b, STR_rc} :
                HasPrefix(preS, sh) /\ IsNumber(SubSeq(preS, Len(sh) + 1, Len(preS)))
        /\ \/ devS = <<>>
           \/ /\ HasPrefix(devS, STR_dot_dev)
              /\ IsNumber(SubSeq(devS, Len(STR_dot_dev) + 1, Len(devS)))

\* The run is the self-test
SelfTestRun == SingleArg /\ Arg = STR_test /\ pc \in {"test", "exited"}

\* C1: in the self-test run, create_pep440_version is called on the nine inputs
\* of the table in order, each call returns exactly the listed output, no
\* exception or assertion failure is reported, and the run ends with the
\* success message on standard output and exit status 0.
C1_RoundTripTable ==
  SelfTestRun =>
    /\ Len(calls) <= Len(semtag_version_to_pep440_version)
    /\ \A i \in 1..Len(calls) : calls[i] = semtag_version_to_pep440_version[i][1]
    /\ Len(calls) >= 1 =>
         outcome = Return(semtag_version_to_pep440_version[Len(calls)][2])
    /\ stderr = <<>>
    /\ pc = "exited" =>
         /\ Len(calls) = Len(semtag_version_to_pep440_version)
         /\ stdout = <<MSG_test_passed>>
         /\ status = 0

C1_Witness ==
  /\ SelfTestRun
  /\ pc = "exited"
  /\ Len(calls) = 9
  /\ stdout = <<MSG_test_passed>>

\* C2: an argument that contains "unstaged" or "uncommitted" anywhere makes the
\* conversion fail with a ValueError (the uncommitted-changes message) and
\* nothing is written, whether or not the argument matches the semver pattern.
C2_MarkersRejected ==
  (ConvertedArg /\ HasMarker(Arg)) =>
    /\ FailedInvalidInput
    /\ outcome.msg = MSG_uncommitted

C2_Witness ==
  /\ ConvertedArg
  /\ Contains(Arg, STR_unstaged)
  /\ ~Parsed.matched
  /\ outcome.kind = "ValueError"

\* C3: an argument that does not match the semver pattern makes the conversion
\* fail with a ValueError, the error kind of the other rejections.
C3_GrammarMismatchIsValueError ==
  (ConvertedArg /\ ~Parsed.matched) => outcome.kind = "ValueError"

\* C4: every returned string has the form
\* <major>.<minor>.<patch>[{a|b|rc}<N>][.dev<N>][+<label>] with the components
\* of the argument and with each <N> a number.
C4_OutputIsPep440 ==
  (ConvertedArg /\ outcome.kind = "return") =>
    IsPep440Form(outcome.value, ReleaseOfArg)

\* C5: a matching argument whose prerelease does not start with alpha, beta, rc
\* or dev fails with a ValueError and nothing is written, whatever the number
\* of prerelease parts.
C5_UnknownCycleRejected ==
  (/\ ConvertedArg
   /\ Parsed.matched
   /\ Parsed.prerelease.some
   /\ PrereleaseParts[1] \notin {STR_alpha, STR_beta, STR_rc, STR_dev})
  => FailedInvalidInput

C5_Witness ==
  /\ ConvertedArg
  /\ ~HasMarker(Arg)
  /\ Parsed.matched
  /\ Parsed.prerelease.some
  /\ PrereleaseParts[1] \notin {STR_alpha, STR_beta, STR_rc, STR_dev}
  /\ Len(PrereleaseParts) = 2
  /\ FailedInvalidInput

\* The argument without its buildmetadata segments after the first
ArgFirstBuildOnly ==
  SubSeq(Arg, 1, Find(Arg, "+")) \o BuildSegments[1]
    \o (IF Arg[Len(Arg)] = "\n" THEN <<"\n">> ELSE <<>>)

\* C6: a returned string of an argument with buildmetadata ends with "+" and
\* the first buildmetadata segment, its only "+" label, and is the string
\* returned for the same argument without the later segments; a returned string
\* of an argument without buildmetadata holds no "+".
C6_FirstBuildSegmentOnly ==
  (ConvertedArg /\ outcome.kind = "return") =>
    LET o == outcome.value
        p == Find(o, "+")
    IN IF Parsed.buildmetadata.some
       THEN /\ p # 0
            /\ SubSeq(o, p, Len(o)) = <<"+">> \o BuildSegments[1]
            /\ create_pep440_version(ArgFirstBuildOnly) = outcome
       ELSE p = 0

C6_Witness ==
  /\ ConvertedArg
  /\ outcome.kind = "return"
  /\ Parsed.buildmetadata.some
  /\ Len(BuildSegments) >= 2
  /\ BuildSegments[2] # BuildSegments[1]

\* C7: for a matching argument free of instability markers: alpha, beta or rc
\* with 2 prerelease parts returns release, {a|b|rc}{part1} and no development
\* segment; with 3 parts the same followed by ".dev{part2}"; dev with 2 parts
\* returns release and ".dev{part1}" with no prerelease segment.
C7_PrereleaseAndDevSegments ==
  (/\ ConvertedArg
   /\ ~HasMarker(Arg)
   /\ Parsed.matched
   /\ Parsed.prerelease.some)
  => LET parts == PrereleaseParts
     IN /\ (parts[1] \in {STR_alpha, STR_beta, STR_rc} /\ Len(parts) = 2) =>
             outcome = Return(ReleaseOfArg \o ShortCode(parts[1]) \o parts[2]
                              \o LocalOfArg)
        /\ (parts[1] \in {STR_alpha, STR_beta, STR_rc} /\ Len(parts) = 3) =>
             outcome = Return(ReleaseOfArg \o ShortCode(parts[1]) \o parts[2]
                              \o STR_dot_dev \o parts[3] \o LocalOfArg)
        /\ (parts[1] = STR_dev /\ Len(parts) = 2) =>
             outcome = Return(ReleaseOfArg \o STR_dot_dev \o parts[2] \o LocalOfArg)

C7_Witness ==
  /\ ConvertedArg
  /\ Parsed.matched
  /\ Parsed.prerelease.some
  /\ PrereleaseParts[1] = STR_beta
  /\ Len(PrereleaseParts) = 3
  /\ PrereleaseParts[2] # PrereleaseParts[3]
  /\ outcome.kind = "return"

\* C8: a matching argument whose prerelease has a number of parts other than 2
\* or 3, or starts with dev and has 3 parts, fails with a ValueError and
\* nothing is written.
C8_PartCountRejected ==
  (/\ ConvertedArg
   /\ Parsed.matched
   /\ Parsed.prerelease.some
   /\ \/ Len(PrereleaseParts) \notin {2, 3}
      \/ PrereleaseParts[1] = STR_dev /\ Len(PrereleaseParts) = 3)
  => FailedInvalidInput

C8_Witness ==
  /\ ConvertedArg
  /\ ~HasMarker(Arg)
  /\ Parsed.matched
  /\ Parsed.prerelease.some
  /\ PrereleaseParts[1] = STR_dev
  /\ Len(PrereleaseParts) = 3
  /\ FailedInvalidInput

\* The two outcomes of a run with one argument other than "test", and what a
\* run with the argument "test" never does
CliOutcome ==
  /\ (SingleArg /\ Arg # STR_test /\ pc = "exited") =>
       /\ calls = <<Arg>>
       /\ \/ /\ outcome.kind = "return"
             /\ stdout = <<outcome.value>>
             /\ status = 0
          \/ /\ outcome.kind \notin {"return", "none"}
             /\ stdout = <<>>
             /\ status \notin {0, -1}
  /\ (SingleArg /\ Arg = STR_test) =>
       /\ pc \notin {"convert", "print"}
       /\ \A i \in 1..Len(calls) : calls[i] # STR_test

\* How far the run is: every statement of the script lies before its exit
RunPosition ==
  CASE pc = "main"     -> 0
    [] pc = "dispatch" -> 1
    [] pc = "convert"  -> 2
    [] pc = "print"    -> 3
    [] pc = "test"     -> 1 + test_i
    [] pc = "exited"   -> 2 + Len(semtag_version_to_pep440_version) + 1

\* C9: every step of a run moves it on towards its exit (no statement is run
\* twice, so the run ends); a run with one argument other than "test" has
\* exited either with the returned string as the only line of standard output
\* and status 0, or after a failed conversion with nothing on standard output
\* and a non-zero status; a run with the argument "test" never hands "test" to
\* the conversion.
C9_CliOutcomes == []CliOutcome /\ [][RunPosition' > RunPosition]_vars

C9_Witness ==
  /\ SingleArg
  /\ Arg # STR_test
  /\ pc = "exited"
  /\ outcome.kind = "return"
  /\ stdout = <<outcome.value>>
  /\ status = 0

\* The diagnostic of the specification for n arguments
ExpectedOneArgument(n) == <<"E", "x", "p", "e", "c", "t", "e", "d", " ", "1", " ", "a", "r", "g", "u", "m", "e", "n", "t", ",", " ", "g", "o", "t", " ">> \o IntToStr(n) \o <<".">>

\* C10: a run with n # 1 arguments exits at once with a non-zero status and
\* one line on standard error that ends with "Expected 1 argument, got {n}."
\* (after the prefix "Error: "), with no conversion, no self-test and nothing
\* on standard output.
C10_ArgumentCount ==
  (Len(sys_argv) # 2 /\ pc # "main") =>
    /\ pc = "exited"
    /\ status \notin {0, -1}
    /\ Len(stderr) = 1
    /\ stderr[1].text = <<"E", "r", "r", "o", "r", ":", " ">> \o ExpectedOneArgument(Len(sys_argv) - 1)
    /\ calls = <<>>
    /\ outcome = NotCalled
    /\ test_i = 0
    /\ stdout = <<>>

C10_Witness ==
  /\ Len(sys_argv) > 2
  /\ pc = "exited"
  /\ Len(stderr) = 1
  /\ status = 1

====
